---------------------------- MODULE Spec2Model ----------------------------
(***************************************************************************)
(* Coherent Point Drift registration (probreg/cpd.py).                     *)
(*                                                                         *)
(* The module models registration_cpd and the classes behind it:           *)
(*   - the dispatch on transform_type,                                     *)
(*   - CoherentPointDrift.registration, the EM driver, one action per      *)
(*     statement of its loop,                                              *)
(*   - CoherentPointDrift.transform, the transform applicator,             *)
(*   - CoherentPointDrift.expectation_step and the maximization steps as   *)
(*     operators over arrays.                                              *)
(*                                                                         *)
(* Floats are fixed-point numbers: the integer n stands for n / One, and   *)
(* the smallest positive number, 1 / One, stands for machine epsilon.      *)
(* NaN stands for every non-finite float (nan, inf, -inf): in this program *)
(* a non-finite value never compares below a tolerance and every           *)
(* arithmetic operation on one gives a non-finite value again.  A result   *)
(* beyond Huge overflows (to inf), so it is NaN too.                       *)
(* Arrays are sequences; an N x D array is a sequence of N rows.           *)
(***************************************************************************)
EXTENDS Integers, Sequences, FiniteSets, TLC

\* ------------------------------------------------------------- bounds
\* 1.0 in fixed point; 1 / One is the number the model uses for eps.
One == 256
\* Largest max_iteration a call is given.
MaxIter == 2
\* Largest number of points of a point set.
MaxPts == 2
\* Largest offset (in whole coordinates) of the target set.
MaxShift == 1

\* ------------------------------------------------------------- floats
NaN == -(2^30)

IsNaN(x) == x = NaN

Finite(x) == x # NaN

\* The largest magnitude of a finite float.
Huge == 2^22

Mag(n) == IF n < 0 THEN 0 - n ELSE n

\* A float result: overflow gives a non-finite value.
Rounded(n) == IF Mag(n) > Huge THEN NaN ELSE n

FAdd(x, y) == IF IsNaN(x) \/ IsNaN(y) THEN NaN ELSE Rounded(x + y)

FSub(x, y) == IF IsNaN(x) \/ IsNaN(y) THEN NaN ELSE Rounded(x - y)

FNeg(x) == IF IsNaN(x) THEN NaN ELSE 0 - x

\* Integer quotient rounded towards zero (\div rounds down).
Quot(n, d) ==
    LET an == IF n < 0 THEN 0 - n ELSE n
        ad == IF d < 0 THEN 0 - d ELSE d
        m  == an \div ad
    IN  IF (n < 0) = (d < 0) THEN m ELSE 0 - m

FMul(x, y) ==
    IF IsNaN(x) \/ IsNaN(y) THEN NaN
    ELSE IF x # 0 /\ Mag(y) > (Huge * One) \div Mag(x) THEN NaN
    ELSE Rounded(Quot(x * y, One))

\* x / 0 is nan (0 / 0) or +-inf: non-finite either way.
FDiv(x, y) ==
    IF IsNaN(x) \/ IsNaN(y) \/ y = 0 THEN NaN ELSE Rounded(Quot(x * One, y))

FAbs(x) == IF IsNaN(x) THEN NaN ELSE IF x < 0 THEN 0 - x ELSE x

\* x < y on floats: False when either side is not finite.
FLt(x, y) == Finite(x) /\ Finite(y) /\ x < y

\* An integer count (a shape, a loop bound) as a float.
FInt(n) == n * One

\* floor(sqrt(n)) of a natural number, by bisection on lo..hi.
RECURSIVE Bisect(_, _, _)
Bisect(n, lo, hi) ==
    IF lo >= hi THEN lo
    ELSE LET mid == (lo + hi + 1) \div 2
         IN  IF mid <= n \div mid THEN Bisect(n, mid, hi) ELSE Bisect(n, lo, mid - 1)

ISqrt(n) == IF n = 0 THEN 0 ELSE Bisect(n, 1, n)

\* np.sqrt: nan for a negative or non-finite argument.
FSqrt(x) == IF IsNaN(x) \/ x < 0 THEN NaN ELSE ISqrt(x * One)

\* floor(log2(n)) of a positive natural number.
RECURSIVE ILog2(_)
ILog2(n) == IF n <= 1 THEN 0 ELSE 1 + ILog2(n \div 2)

Ln2 == (One * 693) \div 1000

\* log2 of the integer n >= 1, in fixed point: the exponent plus a linear
\* interpolation of the mantissa.
Log2Units(n) ==
    LET e == ILog2(n) IN e * One + ((n * One) \div (2^e) - One)

\* np.log: nan below zero, -inf at zero (both non-finite), else ln(x).
FLog(x) ==
    IF IsNaN(x) \/ x <= 0 THEN NaN
    ELSE Quot((Log2Units(x) - Log2Units(One)) * Ln2, One)

\* exp(-r) for r >= 0: 2^-n times a cubic Taylor polynomial of the rest.
FExpNeg(r) ==
    IF IsNaN(r) THEN NaN
    ELSE LET n   == r \div Ln2
             rem == r - n * Ln2
             r2  == FMul(rem, rem)
             r3  == FMul(r2, rem)
             p   == One - rem + (r2 \div 2) - (r3 \div 6)
         IN  IF n >= 30 THEN 0 ELSE p \div (2^n)

\* ------------------------------------------------------------- arrays
\* An array built elementwise, with its elements evaluated once.
Tup(f) == f \o <<>>

RECURSIVE SumSeq(_)
SumSeq(s) == IF Len(s) = 0 THEN 0 ELSE FAdd(Head(s), SumSeq(Tail(s)))

\* np.sum of a vector.
VSum(v) == SumSeq(v)

VecHasNaN(v) == \E i \in 1..Len(v) : IsNaN(v[i])

MatHasNaN(m) == \E i \in 1..Len(m) : VecHasNaN(m[i])

\* np.dot of two vectors.
VDot(u, v) == SumSeq(Tup([i \in 1..Len(u) |-> FMul(u[i], v[i])]))

\* Number of columns of an N x D array (shape[1]).
NCols(m) == Len(m[1])

Column(m, d) == Tup([i \in 1..Len(m) |-> m[i][d]])

Transpose(m) == Tup([d \in 1..NCols(m) |-> Column(m, d)])

\* np.dot of two matrices.
MDot(a, b) ==
    Tup([i \in 1..Len(a) |-> Tup([k \in 1..NCols(b) |-> VDot(a[i], Column(b, k))])])

\* np.dot of a matrix and a vector.
MVDot(a, v) == Tup([i \in 1..Len(a) |-> VDot(a[i], v)])

\* np.outer.
Outer(u, v) == Tup([i \in 1..Len(u) |-> Tup([k \in 1..Len(v) |-> FMul(u[i], v[k])])])

\* np.trace.
Trace(m) == SumSeq(Tup([i \in 1..Len(m) |-> m[i][i]]))

\* np.sum(m, axis=0).
ColSum(m) == Tup([d \in 1..NCols(m) |-> SumSeq(Column(m, d))])

MSub(a, b) == Tup([i \in 1..Len(a) |-> Tup([k \in 1..NCols(a) |-> FSub(a[i][k], b[i][k])])])

\* m - v with v broadcast over the rows.
RowsMinus(m, v) == Tup([i \in 1..Len(m) |-> Tup([k \in 1..NCols(m) |-> FSub(m[i][k], v[k])])])

VScale(s, v) == Tup([i \in 1..Len(v) |-> FMul(s, v[i])])

VDivS(v, s) == Tup([i \in 1..Len(v) |-> FDiv(v[i], s)])

VSubV(u, v) == Tup([i \in 1..Len(u) |-> FSub(u[i], v[i])])

\* np.identity(n).
Identity(n) == Tup([i \in 1..n |-> Tup([k \in 1..n |-> IF i = k THEN One ELSE 0])])

\* np.zeros(n).
Zeros(n) == Tup([i \in 1..n |-> 0])

NaNVec(n) == Tup([i \in 1..n |-> NaN])

NaNMat(n, d) == Tup([i \in 1..n |-> NaNVec(d)])

SqNorm(v) == VDot(v, v)


\* ------------------------------------------------------------- objects
\* A Python value: an ndarray, a point-cloud container, None, a named tuple
\* (kind is its type name, data its fields in order) or a raised exception.
NdArray(m) == [kind |-> "ndarray", data |-> m]

None == [kind |-> "None", data |-> <<>>]

Raised(exc) == [kind |-> exc, data |-> <<>>]

Exceptions == {"ValueError", "TypeError", "AttributeError", "LinAlgError"}

IsRaised(v) == v.kind \in Exceptions

\* The field names of the named tuples of lines 11-14.
Fields(type) ==
    CASE type = "EstepResult" -> <<"pt1", "p1", "px", "n_p">>
      [] type = "RigidResult" -> <<"rot", "t", "scale", "sigma2", "q">>
      [] type = "AffineResult" -> <<"affine", "t", "sigma2", "q">>
      [] type = "NonRigidResult" -> <<"kernel", "coeff", "sigma2", "q">>
      [] OTHER -> <<>>

\* Calling a named tuple type with positional arguments: the number of
\* arguments must be the number of fields, else TypeError.
NamedTuple(type, args) ==
    IF Len(args) = Len(Fields(type))
    THEN [kind |-> type, data |-> args]
    ELSE Raised("TypeError")

EstepResult(pt1, p1, px, n_p) == NamedTuple("EstepResult", <<pt1, p1, px, n_p>>)

RigidResult(rot, t, scale, sigma2, q) ==
    NamedTuple("RigidResult", <<rot, t, scale, sigma2, q>>)

AffineResult(affine, t, sigma2, q) ==
    NamedTuple("AffineResult", <<affine, t, sigma2, q>>)

HasAttr(obj, name) == \E i \in 1..Len(Fields(obj.kind)) : Fields(obj.kind)[i] = name

\* obj.name of a named tuple.
Attr(obj, name) ==
    obj.data[CHOOSE i \in 1..Len(Fields(obj.kind)) : Fields(obj.kind)[i] = name]

\* ------------------------------------------------------------- classes
Classes == {"RigidCPD", "AffineCPD", "NonRigidCPD"}

\* self._result_type, set by each class's __init__.
result_type(cls) ==
    CASE cls = "RigidCPD" -> "RigidResult"
      [] cls = "AffineCPD" -> "AffineResult"
      [] cls = "NonRigidCPD" -> "NonRigidResult"

\* m + t under numpy's broadcasting of an (N, D) and an (L,) array.
AddBroadcast(m, t) ==
    LET D == NCols(m)
        L == Len(t)
    IN  IF L = D
        THEN NdArray(Tup([i \in 1..Len(m) |-> Tup([k \in 1..D |-> FAdd(m[i][k], t[k])])]))
        ELSE IF L = 1
        THEN NdArray(Tup([i \in 1..Len(m) |-> Tup([k \in 1..D |-> FAdd(m[i][k], t[1])])]))
        ELSE IF D = 1
        THEN NdArray(Tup([i \in 1..Len(m) |-> Tup([k \in 1..L |-> FAdd(m[i][1], t[k])])]))
        ELSE Raised("ValueError")

MScale(s, m) == Tup([i \in 1..Len(m) |-> VScale(s, m[i])])

\* RigidCPD._transform: scale * np.dot(points, rot.T) + t.
Rigid_transform(points, params) ==
    IF Len(params.data) # 5 THEN Raised("ValueError")
    ELSE LET rot   == params.data[1]
             t     == params.data[2]
             scale == params.data[3]
         IN  IF NCols(points) # Len(rot) THEN Raised("ValueError")
             ELSE AddBroadcast(MScale(scale, MDot(points, Transpose(rot))), t)

\* AffineCPD._transform: np.dot(points, affine.T) + t.
Affine_transform(points, params) ==
    IF Len(params.data) # 4 THEN Raised("ValueError")
    ELSE LET affine == params.data[1]
             t      == params.data[2]
         IN  IF NCols(points) # Len(affine) THEN Raised("ValueError")
             ELSE AddBroadcast(MDot(points, Transpose(affine)), t)

\* NonRigidCPD._transform: the body is `pass`.
NonRigid_transform(points, params) == None

\* cls._transform.
_transform(cls, points, params) ==
    CASE cls = "RigidCPD" -> Rigid_transform(points, params)
      [] cls = "AffineCPD" -> Affine_transform(points, params)
      [] cls = "NonRigidCPD" -> NonRigid_transform(points, params)

\* array_type(v): the container built from an N x 3 array; the constructor
\* takes nothing else.
Container(array_type, v) ==
    IF IsRaised(v) THEN v
    ELSE IF v.kind = "ndarray" /\ NCols(v.data) = 3
         THEN [kind |-> array_type, data |-> v.data]
         ELSE Raised("TypeError")

\* CoherentPointDrift.transform.
transform(cls, points, params, array_type) ==
    IF points.kind = array_type
    THEN Container(array_type, _transform(cls, points.data, params))
    ELSE _transform(cls, points.data, params)

\* ------------------------------------------------------------- E step
Eps == 1

\* exp(-|x - y|^2 / h^2).
GaussKernel(x, y, h) ==
    LET d == VSubV(x, y) IN FExpNeg(FDiv(SqNorm(d), FMul(h, h)))

\* GaussTransform(source, h).compute(target, weights): for each target
\* point the weighted sum of the kernel centred at the source points.
GaussCompute(source, h, target, weights) ==
    Tup([j \in 1..Len(target) |->
        SumSeq(Tup([i \in 1..Len(source) |->
                   FMul(weights[i], GaussKernel(target[j], source[i], h))]))])

Ones(n) == Tup([i \in 1..n |-> One])

\* x ** (ndim * 0.5); a negative base with a fractional power is nan.
FPowHalf(x, ndim) ==
    LET RECURSIVE IPow(_, _)
        IPow(b, n) == IF n = 0 THEN One ELSE FMul(b, IPow(b, n - 1))
        whole == IPow(x, ndim \div 2)
    IN  IF ndim % 2 = 0 THEN whole ELSE FMul(whole, FSqrt(x))

TwoPi == (One * 6283) \div 1000

\* c of lines 42-43.
OutlierTerm(ndim, sigma2, w, n_source, n_target) ==
    FMul(FPowHalf(FMul(TwoPi, sigma2), ndim),
         FDiv(FMul(FDiv(w, FSub(One, w)), FInt(n_source)), FInt(n_target)))

\* Mutant of ZeroGuard: the zero entries are left as they are.
ZeroGuard_none(kt1) == kt1

\* kt1[kt1 == 0] = eps.
ZeroGuard(kt1) == Tup([j \in 1..Len(kt1) |-> IF kt1[j] = 0 THEN Eps ELSE kt1[j]])

\* h of line 41.
Bandwidth(sigma2) == FSqrt(FMul(FInt(2), sigma2))

\* kt1 as it enters the division of line 47.
KernelSums(t_source, target, sigma2) ==
    LET h == Bandwidth(sigma2)
    IN  ZeroGuard(GaussCompute(t_source, h, target, Ones(Len(t_source))))

\* a of line 47.
InvDenominator(t_source, target, sigma2, w) ==
    LET c   == OutlierTerm(NCols(t_source), sigma2, w, Len(t_source), Len(target))
        kt1 == KernelSums(t_source, target, sigma2)
    IN  Tup([j \in 1..Len(target) |-> FDiv(One, FAdd(kt1[j], c))])

\* n_p of line 52.
TotalMass(pt1, p1) == VSum(p1)

\* CoherentPointDrift.expectation_step.
expectation_step(t_source, target, sigma2, w) ==
    LET ndim == NCols(t_source)
        h    == Bandwidth(sigma2)
        c    == OutlierTerm(ndim, sigma2, w, Len(t_source), Len(target))
        a    == InvDenominator(t_source, target, sigma2, w)
        pt1  == Tup([j \in 1..Len(target) |-> FSub(One, FMul(c, a[j]))])
        p1   == GaussCompute(target, h, t_source, a)
        wts  == Tup([d \in 1..ndim |-> Tup([j \in 1..Len(target) |-> FMul(a[j], target[j][d])])])
        pxT  == Tup([d \in 1..ndim |-> GaussCompute(target, h, t_source, wts[d])])
        px   == Transpose(pxT)
    IN  EstepResult(pt1, p1, px, TotalMass(pt1, p1))

\* ------------------------------------------------------------- M step
\* m * v with v broadcast over the columns (m is D x N, v has length N).
ColScale(m, v) == Tup([d \in 1..Len(m) |-> Tup([i \in 1..Len(v) |-> FMul(m[d][i], v[i])])])

\* mu_x of lines 88 and 120.
MuX(estep_res) == VDivS(ColSum(estep_res.data[3]), estep_res.data[4])

\* mu_y of lines 89 and 121.
MuY(source, estep_res) ==
    VDivS(MVDot(Transpose(source), estep_res.data[2]), estep_res.data[4])

\* a of lines 92 and 124.
CrossCovariance(source, target, estep_res) ==
    LET p1         == estep_res.data[2]
        px         == estep_res.data[3]
        mu_x       == MuX(estep_res)
        source_hat == RowsMinus(source, MuY(source, estep_res))
    IN  MSub(MDot(Transpose(px), source_hat),
             Outer(mu_x, MVDot(Transpose(source_hat), p1)))

\* sigma2 of line 102; the value is stored in the result as computed.
RigidSigma2(tr_xp1x, scale, tr_atr, n_p, ndim) ==
    FDiv(FSub(tr_xp1x, FMul(scale, tr_atr)), FMul(n_p, FInt(ndim)))

\* RigidCPD.maximization_step; rot is u * c * vh of the SVD of a.
Rigid_maximization_step(source, target, estep_res, rot) ==
    LET pt1        == estep_res.data[1]
        p1         == estep_res.data[2]
        n_p        == estep_res.data[4]
        ndim       == NCols(source)
        mu_x       == MuX(estep_res)
        mu_y       == MuY(source, estep_res)
        target_hat == RowsMinus(target, mu_x)
        source_hat == RowsMinus(source, mu_y)
        a          == CrossCovariance(source, target, estep_res)
        tr_atr     == Trace(MDot(Transpose(a), rot))
        tr_yp1y    == Trace(MDot(ColScale(Transpose(source_hat), p1), source_hat))
        scale      == FDiv(tr_atr, tr_yp1y)
        t          == VSubV(mu_x, VScale(scale, MVDot(rot, mu_y)))
        tr_xp1x    == Trace(MDot(ColScale(Transpose(target_hat), pt1), target_hat))
        sigma2     == RigidSigma2(tr_xp1x, scale, tr_atr, n_p, ndim)
        q          == FAdd(FDiv(FAdd(FSub(tr_xp1x, FMul(FMul(FInt(2), scale), tr_atr)),
                                     FMul(FMul(scale, scale), tr_yp1y)),
                                FMul(FInt(2), sigma2)),
                           FMul(FMul(FMul(FInt(ndim), n_p), One \div 2), FLog(sigma2)))
    IN  RigidResult(rot, t, scale, sigma2, q)

\* sigma2 of line 130; the value is stored in the result as computed.
AffineSigma2(tr_xp1x, tr_xpyb, n_p, ndim) ==
    FDiv(FSub(tr_xp1x, tr_xpyb), FMul(n_p, FInt(ndim)))

\* AffineCPD.maximization_step; affine is the solution of the linear system
\* of line 126.
Affine_maximization_step(source, target, estep_res, affine) ==
    LET pt1        == estep_res.data[1]
        n_p        == estep_res.data[4]
        ndim       == NCols(source)
        mu_x       == MuX(estep_res)
        mu_y       == MuY(source, estep_res)
        target_hat == RowsMinus(target, mu_x)
        a          == CrossCovariance(source, target, estep_res)
        t          == VSubV(mu_x, MVDot(affine, mu_y))
        tr_xp1x    == Trace(MDot(ColScale(Transpose(target_hat), pt1), target_hat))
        tr_xpyb    == Trace(MDot(a, Transpose(affine)))
        sigma2     == AffineSigma2(tr_xp1x, tr_xpyb, n_p, ndim)
        tr_ab      == Trace(MDot(a, Transpose(affine)))
        q          == FAdd(FDiv(FAdd(FSub(tr_xp1x, FMul(FInt(2), tr_ab)), tr_xpyb),
                                FMul(FInt(2), sigma2)),
                           FMul(FMul(FMul(FInt(ndim), n_p), One \div 2), FLog(sigma2)))
    IN  AffineResult(affine, t, sigma2, q)

\* NonRigidCPD.maximization_step: the body is `pass`.
NonRigid_maximization_step(source, target, estep_res) == None

\* self.maximization_step; lin is what the linear-algebra call of the step
\* (np.linalg.svd, np.linalg.solve) gave: an array or a raised LinAlgError.
maximization_step(cls, source, target, estep_res, lin) ==
    IF cls = "NonRigidCPD" THEN NonRigid_maximization_step(source, target, estep_res)
    ELSE IF IsRaised(lin) THEN lin
    ELSE IF cls = "RigidCPD"
         THEN Rigid_maximization_step(source, target, estep_res, lin.data)
         ELSE Affine_maximization_step(source, target, estep_res, lin.data)

\* Rotation of the first two axes by k quarter turns, the other axes fixed.
QuarterTurns(n, k) ==
    LET c == CASE k = 0 -> One [] k = 2 -> 0 - One [] OTHER -> 0
        s == CASE k = 1 -> One [] k = 3 -> 0 - One [] OTHER -> 0
    IN  Tup([i \in 1..n |-> Tup([j \in 1..n |->
            IF i = 1 /\ j = 1 THEN c
            ELSE IF i = 1 /\ j = 2 THEN 0 - s
            ELSE IF i = 2 /\ j = 1 THEN s
            ELSE IF i = 2 /\ j = 2 THEN c
            ELSE IF i = j THEN One ELSE 0])])

Rotations(n) == {QuarterTurns(n, k) : k \in 0..3}

\* What the linear-algebra call of a maximization step can give for the
\* matrix a.  np.linalg.svd (rigid): u * c * vh is the rotation that
\* maximises trace(a.T rot), here among the quarter turns.  np.linalg.solve
\* (affine): a matrix.  On a matrix with a non-finite entry LAPACK either
\* fails (LinAlgError) or returns non-finite factors, depending on the build.
LinAlg(cls, a) ==
    LET score(r) == Trace(MDot(Transpose(a), r))
    IN  IF MatHasNaN(a)
        THEN {Raised("LinAlgError"), NdArray(NaNMat(Len(a), Len(a)))}
        ELSE IF cls = "RigidCPD"
        THEN {NdArray(r) : r \in {r \in Rotations(Len(a)) :
                                     \A r2 \in Rotations(Len(a)) : score(r2) <= score(r)}}
        ELSE {NdArray(r) : r \in Rotations(Len(a))}

\* mu.mean_square_norm: the mean over all pairs of the squared distance,
\* per coordinate.
mean_square_norm(source, target) ==
    FDiv(SumSeq(Tup([i \in 1..Len(source) |->
                    SumSeq(Tup([j \in 1..Len(target) |->
                               SqNorm(VSubV(source[i], target[j]))]))])),
         FInt(Len(source) * Len(target) * NCols(source)))

\* ------------------------------------------------------------- inputs
\* A point set of n points of dimension d: the points 0, 1, ... along the
\* first axis ("line") or along the second ("turned"), moved by shift along
\* the first axis.
PointSet(n, d, shape, shift) ==
    Tup([i \in 1..n |-> Tup([k \in 1..d |->
        IF k = 1 THEN FInt(shift + (IF shape = "line" THEN i - 1 ELSE 0))
        ELSE IF k = 2 /\ shape = "turned" THEN FInt(i - 1)
        ELSE 0])])

Dims == {2, 3}

Sources(d) == {PointSet(n, d, "line", 0) : n \in 1..MaxPts}

Targets(d) ==
    {PointSet(n, d, shape, shift) :
        n \in 1..MaxPts, shape \in {"line", "turned"}, shift \in 0..MaxShift}

TransformTypes == {"rigid", "affine", "nonrigid", "similarity"}

OutlierWeights == {0, One \div 2}

Tolerances == {One \div 8, FInt(4)}

\* ------------------------------------------------------------- driver
VARIABLES
    pc,             \* the statement the call is at
    transform_type, \* arguments of registration_cpd
    in_source,      \*   source.points
    in_target,      \*   target.points
    w,
    max_iteration,
    tolerance,
    cpd,            \* the solver object (its class), None before line 152
    source,         \* np.asarray(source.points), None before line 159
    target,
    q,              \* locals of registration
    res,
    iter,           \* iterations of the for loop entered so far
    t_source,
    estep_res,
    result,         \* what the call returned or raised
    state,          \* INIT, ITERATING, CONVERGED, MAX_ITER_REACHED or ERROR
    recs,           \* history: the result records made, in order
    steps           \* history: the steps run, <<name, iteration>>

vars == <<pc, transform_type, in_source, in_target, w, max_iteration, tolerance,
          cpd, source, target, q, res, iter, t_source, estep_res, result,
          state, recs, steps>>

args == <<transform_type, in_source, in_target, w, max_iteration, tolerance>>

\* The point sets are valid N x D sets of one dimension D, not all equal.
Init ==
    /\ pc = "call"
    /\ transform_type \in TransformTypes
    /\ \E d \in Dims :
          /\ in_source \in Sources(d)
          /\ in_target \in Targets(d)
    /\ Finite(mean_square_norm(in_source, in_target))
    /\ mean_square_norm(in_source, in_target) > 0
    /\ w \in OutlierWeights
    /\ max_iteration \in 0..MaxIter
    /\ tolerance \in Tolerances
    /\ cpd = None
    /\ source = None
    /\ target = None
    /\ q = NaN
    /\ res = None
    /\ iter = 0
    /\ t_source = None
    /\ estep_res = None
    /\ result = None
    /\ state = "INIT"
    /\ recs = <<>>
    /\ steps = <<>>

\* Mutant of SolverFor: an unknown transform_type falls back to rigid.
SolverFor_default(type) ==
    IF type = "affine" THEN [kind |-> "AffineCPD", data |-> <<>>]
    ELSE IF type = "nonrigid" THEN [kind |-> "NonRigidCPD", data |-> <<>>]
    ELSE [kind |-> "RigidCPD", data |-> <<>>]

\* Lines 151-158: the class for transform_type, or ValueError.
SolverFor(type) ==
    IF type = "rigid" THEN [kind |-> "RigidCPD", data |-> <<>>]
    ELSE IF type = "affine" THEN [kind |-> "AffineCPD", data |-> <<>>]
    ELSE IF type = "nonrigid" THEN [kind |-> "NonRigidCPD", data |-> <<>>]
    ELSE Raised("ValueError")

\* An exception leaves the call.
Raise(exc) ==
    /\ result' = exc
    /\ pc' = "raised"
    /\ state' = "ERROR"

\* registration_cpd, lines 151-158.
Dispatch ==
    /\ pc = "call"
    /\ LET c == SolverFor(transform_type)
       IN  IF IsRaised(c)
           THEN Raise(c) /\ UNCHANGED cpd
           ELSE /\ cpd' = c
                /\ pc' = "args"
                /\ UNCHANGED <<result, state>>
    /\ UNCHANGED <<args, source, target, q, res, iter, t_source, estep_res,
                   recs, steps>>

\* Line 159: the arguments of cpd.registration are evaluated.
ReadPoints ==
    /\ pc = "args"
    /\ source' = NdArray(in_source)
    /\ target' = NdArray(in_target)
    /\ pc' = "init"
    /\ UNCHANGED <<args, cpd, q, res, iter, t_source, estep_res, result,
                   state, recs, steps>>

\* Mutant of SeedObjective: the tolerance is added, not subtracted.
SeedObjective_plus(tol, n_target, ndim, sigma2) ==
    FSub(FAdd(tol, One),
         FMul(FMul(FInt(n_target * ndim), One \div 2), FLog(sigma2)))

\* q of line 64.
SeedObjective(tol, n_target, ndim, sigma2) ==
    FSub(FAdd(FNeg(tol), One),
         FMul(FMul(FInt(n_target * ndim), One \div 2), FLog(sigma2)))

\* The record of line 65.
InitialRecord(type, ndim, sigma2, q0) ==
    NamedTuple(type, <<Identity(ndim), Zeros(3), One, sigma2, q0>>)

\* registration, lines 61-65.
RegistrationInit ==
    /\ pc = "init"
    /\ LET ndim   == NCols(source.data)
           sigma2 == mean_square_norm(source.data, target.data)
           q0     == SeedObjective(tolerance, Len(target.data), ndim, sigma2)
           r      == InitialRecord(result_type(cpd.kind), ndim, sigma2, q0)
       IN  IF IsRaised(r)
           THEN Raise(r) /\ UNCHANGED <<q, res, recs>>
           ELSE /\ q' = q0
                /\ res' = r
                /\ recs' = <<r>>
                /\ pc' = "for"
                /\ UNCHANGED <<result, state>>
    /\ UNCHANGED <<args, cpd, source, target, iter, t_source, estep_res, steps>>

\* Line 66: the next value of range(max_iteration), or the loop is over.
ForLoop ==
    /\ pc = "for"
    /\ IF iter < max_iteration
       THEN /\ iter' = iter + 1
            /\ pc' = "transform"
            /\ state' = "ITERATING"
       ELSE /\ pc' = "return"
            /\ state' = "MAX_ITER_REACHED"
            /\ UNCHANGED iter
    /\ UNCHANGED <<args, cpd, source, target, q, res, t_source, estep_res,
                   result, recs, steps>>

\* The value line 67 gives t_source.
loop_transform(cls, src, params) == transform(cls, src, params, "Vector3dVector")

\* Line 67.
Transform ==
    /\ pc = "transform"
    /\ steps' = Append(steps, <<"transform", iter>>)
    /\ LET v == loop_transform(cpd.kind, source, res)
       IN  IF IsRaised(v)
           THEN Raise(v) /\ UNCHANGED t_source
           ELSE /\ t_source' = v
                /\ pc' = "estep"
                /\ UNCHANGED <<result, state>>
    /\ UNCHANGED <<args, cpd, source, target, q, res, iter, estep_res, recs>>

\* The value line 68 gives estep_res.
loop_expectation(ts, tgt, params, weight) ==
    IF ts.kind # "ndarray" THEN Raised("AttributeError")
    ELSE expectation_step(ts.data, tgt.data, Attr(params, "sigma2"), weight)

\* Line 68.
Expectation ==
    /\ pc = "estep"
    /\ steps' = Append(steps, <<"estep", iter>>)
    /\ LET v == loop_expectation(t_source, target, res, w)
       IN  IF IsRaised(v)
           THEN Raise(v) /\ UNCHANGED estep_res
           ELSE /\ estep_res' = v
                /\ pc' = "mstep"
                /\ UNCHANGED <<result, state>>
    /\ UNCHANGED <<args, cpd, source, target, q, res, iter, t_source, recs>>

\* The value line 69 gives res.
loop_maximization(cls, src, ts, tgt, stats, lin) ==
    maximization_step(cls, src.data, tgt.data, stats, lin)

\* Line 69.
Maximization ==
    /\ pc = "mstep"
    /\ steps' = Append(steps, <<"mstep", iter>>)
    /\ \E lin \in LinAlg(cpd.kind, CrossCovariance(source.data, target.data, estep_res)) :
          LET v == loop_maximization(cpd.kind, source, t_source, target, estep_res, lin)
          IN  IF IsRaised(v)
              THEN Raise(v) /\ UNCHANGED <<res, recs>>
              ELSE /\ res' = v
                   /\ recs' = Append(recs, v)
                   /\ pc' = "test"
                   /\ UNCHANGED <<result, state>>
    /\ UNCHANGED <<args, cpd, source, target, q, iter, t_source, estep_res>>

\* Mutant of converged: the difference is compared without abs().
converged_signed(new_q, old_q, tol) == FLt(FSub(new_q, old_q), tol)

\* The test of line 70.
converged(new_q, old_q, tol) == FLt(FAbs(FSub(new_q, old_q)), tol)

\* Lines 70-72.
ConvergenceTest ==
    /\ pc = "test"
    /\ IF ~HasAttr(res, "q")
       THEN Raise(Raised("AttributeError")) /\ UNCHANGED q
       ELSE IF converged(Attr(res, "q"), q, tolerance)
       THEN /\ pc' = "return"
            /\ state' = "CONVERGED"
            /\ UNCHANGED <<q, result>>
       ELSE /\ q' = Attr(res, "q")
            /\ pc' = "for"
            /\ UNCHANGED <<result, state>>
    /\ UNCHANGED <<args, cpd, source, target, res, iter, t_source, estep_res,
                   recs, steps>>

\* Line 73.
Return ==
    /\ pc = "return"
    /\ result' = res
    /\ pc' = "done"
    /\ UNCHANGED <<args, cpd, source, target, q, res, iter, t_source, estep_res,
                   state, recs, steps>>

Next ==
    \/ Dispatch
    \/ ReadPoints
    \/ RegistrationInit
    \/ ForLoop
    \/ Transform
    \/ Expectation
    \/ Maximization
    \/ ConvergenceTest
    \/ Return

Spec == Init /\ [][Next]_vars

\* ------------------------------------------------- the transform API
\* Parameter records a caller can hand to cls.transform for points of
\* dimension d.
Translations(d) == {Zeros(d), Tup([k \in 1..d |-> IF k = 1 THEN One ELSE 0])}

ParamsOf(cls, d) ==
    CASE cls = "RigidCPD" ->
            {RigidResult(rot, t, scale, One, 0) :
                rot \in Rotations(d), t \in Translations(d), scale \in {One, 2 * One}}
      [] cls = "AffineCPD" ->
            {AffineResult(affine, t, One, 0) :
                affine \in Rotations(d) \cup {MScale(2 * One, Identity(d))},
                t \in Translations(d)}
      [] cls = "NonRigidCPD" ->
            {NamedTuple("NonRigidResult", <<Identity(d), Zeros(d), One, 0>>)}

\* The points handed to cls.transform: a raw array, or (for 3-D points) a
\* Vector3dVector.
PointArgs(d) ==
    LET sets == Sources(d) \cup Targets(d)
    IN  {NdArray(m) : m \in sets}
        \cup (IF d = 3 THEN {[kind |-> "Vector3dVector", data |-> m] : m \in sets}
              ELSE {})

\* A call cls.transform(points, params): points is held in source, params
\* in res.
InitT ==
    /\ pc = "apply"
    /\ cpd \in {[kind |-> c, data |-> <<>>] : c \in Classes}
    /\ \E d \in Dims :
          /\ source \in PointArgs(d)
          /\ res \in ParamsOf(cpd.kind, d)
    /\ transform_type = "rigid"
    /\ in_source = source.data
    /\ in_target = source.data
    /\ w = 0
    /\ max_iteration = 0
    /\ tolerance = One
    /\ target = None
    /\ q = NaN
    /\ iter = 0
    /\ t_source = None
    /\ estep_res = None
    /\ result = None
    /\ state = "INIT"
    /\ recs = <<>>
    /\ steps = <<>>

\* cls.transform(points, params), lines 23-28.
TransformCall ==
    /\ pc = "apply"
    /\ result' = transform(cpd.kind, source, res, "Vector3dVector")
    /\ pc' = IF IsRaised(result') THEN "apply_raised" ELSE "applied"
    /\ UNCHANGED <<args, cpd, source, target, q, res, iter, t_source, estep_res,
                   state, recs, steps>>

NextT == TransformCall

SpecT == InitT /\ [][NextT]_vars

\* ------------------------------------------------- the E step alone
Variances == {1, One \div 4, One}

EstepWeights == {0, One \div 2, One - 1}

\* A call of expectation_step from the loop, line 68, with any transformed
\* source, target, positive variance and outlier weight in [0, 1), of
\* magnitudes that keep c of line 42 within the range of the floats.
InitE ==
    /\ pc = "estep"
    /\ cpd = [kind |-> "RigidCPD", data |-> <<>>]
    /\ \E d \in Dims :
          /\ in_source \in Sources(d)
          /\ in_target \in Targets(d)
          /\ \E v \in Variances :
                res = RigidResult(Identity(d), Zeros(d), One, v, 0)
    /\ transform_type = "rigid"
    /\ w \in EstepWeights
    /\ max_iteration = 1
    /\ tolerance = One
    /\ source = NdArray(in_source)
    /\ target = NdArray(in_target)
    /\ t_source = NdArray(in_source)
    /\ q = 0
    /\ iter = 1
    /\ estep_res = None
    /\ result = None
    /\ state = "ITERATING"
    /\ recs = <<res>>
    /\ steps = << <<"transform", 1>> >>

NextE == Expectation

SpecE == InitE /\ [][NextE]_vars

\* ------------------------------------------------------------- claims
Supported == {"rigid", "affine", "nonrigid"}

\* C1: a transform_type other than rigid, affine and nonrigid raises
\* ValueError and nothing is computed: no solver object is created, the
\* points are not read, and no transform, E or M step runs.
C1_UnknownTypeRaises ==
    (transform_type \notin Supported) =>
        /\ cpd = None
        /\ source = None
        /\ target = None
        /\ steps = <<>>
        /\ recs = <<>>
        /\ pc \in {"call", "raised"}
        /\ (pc = "raised") => (result = Raised("ValueError"))

C1_Witness == transform_type = "similarity" /\ pc = "raised"

FamilyRecord(type) ==
    CASE type = "rigid" -> "RigidResult"
      [] type = "affine" -> "AffineResult"
      [] type = "nonrigid" -> "NonRigidResult"

\* C2: for every supported transform_type the call does not end in an
\* error, the initial record is of the selected family, and the returned
\* value is a record of that family.
C2_FamilyRecordReturned ==
    (transform_type \in Supported) =>
        /\ pc # "raised"
        /\ (pc \in {"for", "transform", "estep", "mstep", "test", "return", "done"})
              => (recs[1].kind = FamilyRecord(transform_type))
        /\ (pc = "done") => (result.kind = FamilyRecord(transform_type))

\* C3: the driver ends in CONVERGED or MAX_ITER_REACHED after at most
\* max_iteration iterations and returns the last record it made (the
\* initial one when max_iteration is 0); it never ends in an error.
C3_TerminalStates ==
    (cpd # None /\ pc \in {"done", "raised"}) =>
        /\ state \in {"CONVERGED", "MAX_ITER_REACHED"}
        /\ iter <= max_iteration
        /\ result = recs[Len(recs)]
        /\ (max_iteration = 0) => (result = recs[1])

\* The test of iteration k on the records made: q_k against q_(k-1).
TestSucceeds(k) ==
    FLt(FAbs(FSub(Attr(recs[k + 1], "q"), Attr(recs[k], "q"))), tolerance)

FirstTestDone ==
    /\ Len(recs) >= 2
    /\ \/ iter >= 2
       \/ pc \in {"for", "return", "done"}

\* C4 (as the code has it): the seed objective is
\* q0 = -tolerance + 1 - N_t*D/2*ln(sigma2_0), and the driver stops in
\* CONVERGED after exactly one iteration exactly when the first
\* Maximization step returns q1 with |q1 - q0| < tolerance.
C4_SeedAndFirstTest ==
    /\ (Len(recs) >= 1) =>
          (Attr(recs[1], "q") =
              FSub(FAdd(FNeg(tolerance), One),
                   FMul(FMul(FInt(Len(in_target) * NCols(in_source)), One \div 2),
                        FLog(Attr(recs[1], "sigma2")))))
    /\ FirstTestDone => ((state = "CONVERGED" /\ iter = 1) <=> TestSucceeds(1))

C4_Witness ==
    /\ pc = "done"
    /\ state = "CONVERGED"
    /\ iter = 1
    /\ tolerance > 0
    /\ TestSucceeds(1)

\* C4 (as stated): the driver never stops in CONVERGED after exactly one
\* iteration.
C4_FirstIterationNeverConverges == ~(state = "CONVERGED" /\ iter = 1)

\* C5: the variance of every record the driver holds is strictly positive,
\* and no non-positive or NaN variance reaches an Expectation step.
C5_VariancePositive ==
    /\ \A i \in 1..Len(recs) : FLt(0, Attr(recs[i], "sigma2"))
    /\ (pc = "estep") => FLt(0, Attr(res, "sigma2"))

\* C6: cls.transform returns the kind of value it was given (a container
\* for a container, a raw array for a raw array), holding the coordinates
\* the family's _transform gives for the underlying array.
C6_SameKindReturned ==
    (pc # "apply") =>
        /\ pc = "applied"
        /\ result.kind = source.kind
        /\ result.data = _transform(cpd.kind, source.data, res).data

\* C7: the driver stops at the first iteration whose test
\* |q_k - q_(k-1)| < tolerance succeeds, q_(k-1) being the objective of the
\* record made just before; no step runs after that test succeeds; while
\* the test fails the comparison value becomes q_k before the next
\* iteration.
C7_StopsAtFirstSuccess ==
    /\ (state = "CONVERGED") =>
          /\ 1 <= iter /\ iter <= max_iteration
          /\ Len(recs) = iter + 1
          /\ Len(steps) = 3 * iter
          /\ TestSucceeds(iter)
          /\ \A j \in 1..(iter - 1) : ~TestSucceeds(j)
    /\ (state = "MAX_ITER_REACHED") => (\A j \in 1..iter : ~TestSucceeds(j))
    /\ (pc \in {"transform", "estep", "mstep", "test"}) =>
          (\A j \in 1..(iter - 1) : ~TestSucceeds(j))
    /\ (pc \in {"for", "transform", "estep", "mstep"}) =>
          (q = Attr(recs[Len(recs)], "q") /\ Len(recs) = iter + (IF pc = "for" THEN 1 ELSE 0))
    /\ (pc = "test") => (q = Attr(recs[iter], "q") /\ Len(recs) = iter + 1)

C7_Witness ==
    /\ pc = "done"
    /\ state = "CONVERGED"
    /\ iter = 2
    /\ ~TestSucceeds(1)
    /\ TestSucceeds(2)

StepName(k) == IF k = 0 THEN "transform" ELSE IF k = 1 THEN "estep" ELSE "mstep"

\* C8: every iteration runs exactly the three steps transform, E, M in
\* that order; transform and E use the record of the previous iteration, M
\* the untransformed source and the E statistics of its iteration, and the
\* M result becomes the current record, the older ones left as they were.
C8_ThreeStepsPerIteration ==
    /\ \A i \in 1..Len(steps) :
          steps[i] = <<StepName((i - 1) % 3), ((i - 1) \div 3) + 1>>
    /\ (pc \in {"for", "test", "return", "done", "raised"}) => (Len(steps) = 3 * iter)
    /\ (pc \in {"estep", "mstep", "test"}) =>
          (t_source = loop_transform(cpd.kind, source, recs[iter]))
    /\ (pc \in {"mstep", "test"}) =>
          (estep_res = loop_expectation(t_source, target, recs[iter], w))
    /\ (pc = "test") =>
          /\ res = recs[iter + 1]
          /\ \E lin \in LinAlg(cpd.kind, CrossCovariance(source.data, target.data, estep_res)) :
                res = maximization_step(cpd.kind, in_source, in_target, estep_res, lin)

\* C9: in an E step with sigma2 > 0 and 0 <= w < 1, a kernel sum that is
\* zero is replaced by eps, so no a[j] is a division by zero;
\* 0 <= pt1[j] <= 1 for every target point j; n_p is the sum of p1.
C9_EstepGuarded ==
    (pc = "mstep" /\ FLt(0, Attr(res, "sigma2")) /\ 0 <= w /\ w < One) =>
        LET s2  == Attr(res, "sigma2")
            raw == GaussCompute(t_source.data, Bandwidth(s2), target.data,
                                Ones(Len(t_source.data)))
            kt1 == KernelSums(t_source.data, target.data, s2)
            a   == InvDenominator(t_source.data, target.data, s2, w)
        IN  /\ \A j \in 1..Len(target.data) :
                  /\ kt1[j] # 0
                  /\ (raw[j] = 0) => (kt1[j] = Eps)
                  /\ (raw[j] # 0) => (kt1[j] = raw[j])
                  /\ Finite(a[j])
                  /\ 0 <= Attr(estep_res, "pt1")[j]
                  /\ Attr(estep_res, "pt1")[j] <= One
            /\ Attr(estep_res, "n_p") = VSum(Attr(estep_res, "p1"))

C9_Witness ==
    /\ pc = "mstep"
    /\ w = 0
    /\ \E j \in 1..Len(target.data) :
          GaussCompute(t_source.data, Bandwidth(Attr(res, "sigma2")), target.data,
                       Ones(Len(t_source.data)))[j] = 0

\* C10: for D = 2 and D = 3 the initial record is a D x D identity, a zero
\* translation of length D and scale 1, and the first E step is given the
\* source unchanged.
C10_IdentityInit ==
    (Len(recs) >= 1) =>
        /\ Attr(recs[1], "rot") = Identity(NCols(in_source))
        /\ Attr(recs[1], "t") = Zeros(NCols(in_source))
        /\ Attr(recs[1], "scale") = One
        /\ (Len(steps) = 1) => (pc = "estep" /\ t_source = source)

=============================================================================
